---- MODULE Spec2Model ----
(***************************************************************************)
(* The run orchestrator of cannoli (class Run): start/stop/error, the      *)
(* status-event handlers, the DAG check, the throttled callLLM and the     *)
(* usage/cost accounting.                                                  *)
(* A last part models LLMProvider.getMergedConfig of providers.ts.         *)
(*                                                                         *)
(* Units.  Token counters are kept in quarter tokens (the mock path adds   *)
(* length/4, a fraction in general), prices in 1e-7 dollars per token, so  *)
(* a cost is a whole number of 2.5e-8 dollars.                             *)
(***************************************************************************)
EXTENDS Integers, Sequences, FiniteSets, TLC

VARIABLES
    graph,        \* Run.graph: the items, in Object.values order, with their fields
    status,       \* object.status of every item of the graph
    isStopped,    \* Run.isStopped
    usage,        \* Run.usage: the entries in insertion order
    canvas,       \* Run.canvas is not null
    isMock,       \* Run.isMock
    openai,       \* Run.openai is not null
    llmLimit,     \* the constructor's llmLimit argument: <<n>>, or <<>> when absent
    pc,           \* where start() is
    stoppages,    \* the payloads onFinish was called with, in call order
    executeLog,   \* the execute() calls made by the orchestrator, in call order
    last,         \* the last operation: its name, item, message and what it raised
    stopCalls,    \* number of stop() calls so far
    errorCalls,   \* number of direct error() calls so far
    queue,        \* p-limit: submitted tasks not yet started, oldest first
    active,       \* p-limit: tasks started and not yet settled
    tasks,        \* every callLLM submission so far, by task number
    startOrder,   \* the task numbers in the order their tasks started
    llmProvider   \* an LLMProvider instance: its fields and its last getMergedConfig call

vars == <<graph, status, isStopped, usage, canvas, isMock, openai, llmLimit, pc,
          stoppages, executeLog, last, stopCalls, errorCalls, queue, active,
          tasks, startOrder, llmProvider>>

----------------------------------------------------------------------------
(* Bounds of the model *)

MaxNodes == 3
MaxDepEdges == 3
MaxStops == 2
MaxErrors == 1
MaxCalls == 1
MaxLimit == 2
MaxInterrupts == 1
MaxSubmissions == 3
MaxCostCalls == 2
MaxConfigKeys == 1

(* Program constants *)

DefaultLimit == 10
CharsPerToken == 4

Undefined == "undefined"
NoMessage == "<absent>"

----------------------------------------------------------------------------
(* Small helpers *)

Range(s) == {s[i] : i \in 1..Len(s)}

RECURSIVE SetToSeq(_)
SetToSeq(S) == IF S = {} THEN <<>>
               ELSE LET m == CHOOSE x \in S : \A y \in S : x <= y
                    IN <<m>> \o SetToSeq(S \ {m})

----------------------------------------------------------------------------
(* The graph.  An item is a node, an edge or a group; nodes and groups are *)
(* vertices (CannoliVertex), edges are not.  A group contains members.     *)

IsVertex(g, o) == g.kind[o] # "edge"

Objects(g) == Range(g.order)

\* object.getAllDependencies(): the dependencies the DAG check follows.  The
\* edges from a container to its members are exempt from the cycle check.
getAllDependencies(g, o) == g.dependencies[o] \ g.members[o]

\* enum DagCheckState
UNVISITED == "UNVISITED"
VISITING == "VISITING"
VISITED == "VISITED"

\* isDAG's inner function visit(obj), with the states map passed through.
\* The result is [ok |-> the boolean returned, states |-> the map afterwards,
\* entered |-> the items whose dependencies were traversed, in that order].
\* The dependencies are followed in ascending order of id.
RECURSIVE visit(_, _, _, _)
RECURSIVE visitDependencies(_, _, _)
visitDependencies(g, deps, r) ==
    IF deps = <<>> THEN r
    ELSE LET d == visit(g, Head(deps), r.states, r.entered)
         IN IF ~d.ok THEN d
            ELSE visitDependencies(g, Tail(deps), d)

\* Mutant of visit: a node already seen, VISITED or VISITING, counts as a cycle
visit_twoColour(g, obj, states, entered) ==
    IF states[obj] # UNVISITED
    THEN [ok |-> FALSE, states |-> states, entered |-> entered]
    ELSE LET r == visitDependencies(g, SetToSeq(getAllDependencies(g, obj)),
                      [ok |-> TRUE, states |-> [states EXCEPT ![obj] = VISITING],
                       entered |-> Append(entered, obj)])
         IN IF ~r.ok THEN r
            ELSE [r EXCEPT !.states = [r.states EXCEPT ![obj] = VISITED]]

visit(g, obj, states, entered) ==
    IF states[obj] = VISITING
    THEN [ok |-> FALSE, states |-> states, entered |-> entered]
    ELSE IF states[obj] = VISITED
    THEN [ok |-> TRUE, states |-> states, entered |-> entered]
    ELSE LET r == visitDependencies(g, SetToSeq(getAllDependencies(g, obj)),
                      [ok |-> TRUE, states |-> [states EXCEPT ![obj] = VISITING],
                       entered |-> Append(entered, obj)])
         IN IF ~r.ok THEN r
            ELSE [r EXCEPT !.states = [r.states EXCEPT ![obj] = VISITED]]

\* Mutant of isDAGLoop: only the first item of the graph is visited
isDAGLoop_firstItemOnly(g, objs, r) ==
    IF objs = <<>> THEN r
    ELSE visit(g, Head(objs), r.states, r.entered)

\* The outer loop of isDAG over Object.values(objects); r is the result so far
RECURSIVE isDAGLoop(_, _, _)
isDAGLoop(g, objs, r) ==
    IF objs = <<>> THEN r
    ELSE IF r.states[Head(objs)] # VISITED
         THEN LET v == visit(g, Head(objs), r.states, r.entered)
              IN IF ~v.ok THEN v ELSE isDAGLoop(g, Tail(objs), v)
         ELSE isDAGLoop(g, Tail(objs), r)

\* The whole traversal of isDAG, from the empty states map
isDAGTraversal(g) ==
    isDAGLoop(g, g.order, [ok |-> TRUE, states |-> [o \in Objects(g) |-> UNVISITED],
                           entered |-> <<>>])

isDAG(g) == isDAGTraversal(g).ok

----------------------------------------------------------------------------
(* Usage and cost *)

\* Run.modelInfo, the static price table
modelInfo == [m \in {"gpt-4", "gpt-3.5-turbo"} |->
                IF m = "gpt-4"
                THEN [name |-> "gpt-4", promptTokenPrice |-> 300,
                      completionTokenPrice |-> 600]
                ELSE [name |-> "gpt-3.5-turbo", promptTokenPrice |-> 15,
                      completionTokenPrice |-> 20]]

\* this.modelInfo[name]: the model's name when the table has it, else undefined
lookupModel(name) == IF name \in DOMAIN modelInfo THEN name ELSE Undefined

\* A fresh usage entry, as both paths of callLLM create it
newUsage(key, model) ==
    [key |-> key, model |-> model, promptTokens |-> 0, completionTokens |-> 0,
     apiCalls |-> 0, totalCost |-> 0]

\* Index of the entry of usage stored under key, 0 when there is none
usageIndex(us, key) ==
    IF \E i \in 1..Len(us) : us[i].key = key
    THEN CHOOSE i \in 1..Len(us) : us[i].key = key
    ELSE 0

\* calculateLLMCostForModel reads usage.model.promptTokenPrice: a TypeError
\* when usage.model is undefined
costThrows(u) == u.model = Undefined

\* Mutant of calculateLLMCostForModel: the cost cached in the entry is returned
calculateLLMCostForModel_cached(u) == u.totalCost

calculateLLMCostForModel(u) ==
    LET promptCost == modelInfo[u.model].promptTokenPrice * u.promptTokens
        completionCost == modelInfo[u.model].completionTokenPrice * u.completionTokens
    IN promptCost + completionCost

\* calculateAllLLMCosts: rewrites every entry's totalCost in insertion order
\* and returns this.usage; the first entry whose model is undefined raises,
\* leaving the entries before it rewritten.
RECURSIVE calculateAllLLMCostsFrom(_, _)
calculateAllLLMCostsFrom(us, i) ==
    IF i > Len(us) THEN [threw |-> FALSE, usage |-> us]
    ELSE IF costThrows(us[i]) THEN [threw |-> TRUE, usage |-> us]
    ELSE calculateAllLLMCostsFrom(
             [us EXCEPT ![i].totalCost = calculateLLMCostForModel(us[i])], i + 1)

calculateAllLLMCosts(us) == calculateAllLLMCostsFrom(us, 1)

\* getTotalCost, for a usage table none of whose models is undefined
RECURSIVE getTotalCostFrom(_, _)
getTotalCostFrom(us, i) ==
    IF i > Len(us) THEN 0
    ELSE calculateLLMCostForModel(us[i]) + getTotalCostFrom(us, i + 1)

getTotalCost(us) == getTotalCostFrom(us, 1)

\* The Stoppage object handed to onFinish
Stoppage(reason, us, message) ==
    [reason |-> reason, usage |-> us, totalCost |-> getTotalCost(us),
     message |-> message]

\* this.onFinish({reason, usage: this.calculateAllLLMCosts(),
\*                totalCost: this.getTotalCost(), message}):
\* the arguments are evaluated first, so a TypeError in them leaves onFinish
\* uncalled.
onFinish(reason, message) ==
    LET c == calculateAllLLMCosts(usage)
    IN /\ usage' = c.usage
       /\ stoppages' = IF c.threw THEN stoppages
                       ELSE Append(stoppages, Stoppage(reason, c.usage, message))

onFinishThrows == calculateAllLLMCosts(usage).threw

\* The usage object of the i-th payload as its receiver reads it: the payload's
\* usage field is what calculateAllLLMCosts returned, this.usage itself and
\* not a copy of it, and this.usage is never reassigned after the constructor.
\* (stoppages[i].usage keeps the value it had when onFinish was called.)
payloadUsage(i) == usage

----------------------------------------------------------------------------
(* The run's lifecycle: start, stop, error *)

config == <<graph, canvas, isMock, openai, llmLimit>>
limiter == <<queue, active, tasks, startOrder>>

Messages == {Undefined, "boom"}
CycleMessage ==
    "Cycle detected in graph. Please make sure the graph is a DAG.\n(exception: edges between groups and their members)"

\* Mutant of orUnknownError: the message is passed on as it was given
orUnknownError_asGiven(message) == message

\* message ?? "Unknown error"
orUnknownError(message) == IF message = Undefined THEN "Unknown error" ELSE message

\* error(message): set the flag, call onFinish, throw Error(message)
error(message) ==
    /\ isStopped' = TRUE
    /\ onFinish("error", message)

\* What error() raises: its own Error, unless building the payload raised
errorThrown == IF onFinishThrows THEN "TypeError" ELSE "Error"

\* What a handler that calls onFinish raises
finishThrown == IF onFinishThrows THEN "TypeError" ELSE "none"

\* The record of an operation: obj is 0 when it is about no item
Op(op, obj, message, thrown) ==
    [op |-> op, obj |-> obj, message |-> message, thrown |-> thrown]

\* stop(): set the flag, call onFinish
stop ==
    /\ stopCalls' = stopCalls + 1
    /\ isStopped' = TRUE
    /\ onFinish("user", NoMessage)
    /\ last' = Op("stop", 0, NoMessage, finishThrown)
    /\ UNCHANGED <<llmProvider, config, limiter, status, pc, executeLog, errorCalls>>

\* A call of error() from outside the event handlers (the method is public
\* and items reach the run through setRun)
errorCall ==
    /\ errorCalls' = errorCalls + 1
    /\ \E message \in Messages \ {Undefined} :
          error(message) /\ last' = Op("error", 0, message, errorThrown)
    /\ UNCHANGED <<llmProvider, config, limiter, status, pc, executeLog, stopCalls>>

\* reset(): the flag after it
reset == FALSE

\* reset(): every object.reset() puts the item back to Pending
resetObjects(g) == [o \in Objects(g) |-> "Pending"]

\* The vertices of the graph in Object.values order
vertices(g) == SelectSeq(g.order, LAMBDA o : IsVertex(g, o))

\* validate(): the vertices on which object.error(CycleMessage) is called.
\* The call raises (through the item's Error event, objectError and error()),
\* which leaves the loop at the first vertex.
validate(g) ==
    IF ~isDAG(g) /\ vertices(g) # <<>> THEN <<Head(vertices(g))>> ELSE <<>>

\* Mutant of roots: the dependencies of the cycle check decide, so a group
\* that depends only on its members counts as a root
roots_byCycleDependencies(g) ==
    SelectSeq(g.order, LAMBDA o : Cardinality(getAllDependencies(g, o)) = 0)

\* start()'s last loop: the objects execute() is called on, in order
roots(g) == SelectSeq(g.order, LAMBDA o : Cardinality(g.dependencies[o]) = 0)

\* The record of one execute() call: the item, and what had happened when
\* it was made (the flag, the number of stoppages emitted, whether an item
\* was in Error)
executeEntries(g, stopped, emitted, errored) ==
    [i \in 1..Len(roots(g)) |->
        [obj |-> roots(g)[i], stopped |-> stopped, emitted |-> emitted,
         errored |-> errored]]

\* start() up to its first suspension: setupListeners, reset, validate, then
\* either the wait for the canvas or, without a canvas, the execute loop.
start ==
    /\ pc = "constructed"
    /\ IF validate(graph) # <<>>
       THEN /\ status' = [resetObjects(graph) EXCEPT ![validate(graph)[1]] = "Error"]
            /\ error(CycleMessage)
            /\ last' = Op("start", validate(graph)[1], CycleMessage, errorThrown)
            /\ pc' = "failed"
            /\ UNCHANGED executeLog
       ELSE /\ status' = resetObjects(graph)
            /\ isStopped' = reset
            /\ last' = Op("start", 0, NoMessage, "none")
            /\ UNCHANGED <<usage, stoppages>>
            /\ IF canvas
               THEN pc' = "awaitCanvas" /\ UNCHANGED executeLog
               ELSE /\ pc' = "started"
                    /\ executeLog' = executeLog \o
                           executeEntries(graph, reset, Len(stoppages), FALSE)
    /\ UNCHANGED <<llmProvider, config, limiter, stopCalls, errorCalls>>

\* start() after canvas.enqueueRemoveAllErrorNodes() has resolved
startResume ==
    /\ pc = "awaitCanvas"
    /\ pc' = "started"
    /\ executeLog' = executeLog \o executeEntries(graph, isStopped, Len(stoppages),
                           \E o \in Objects(graph) : status[o] = "Error")
    /\ last' = Op("startResume", 0, NoMessage, "none")
    /\ UNCHANGED <<llmProvider, config, limiter, status, isStopped, usage, stoppages,
                   stopCalls, errorCalls>>

----------------------------------------------------------------------------
(* The items: when they emit which status event.  Items are external to    *)
(* the run; they are modelled from their contract.                         *)

\* The items execute() has been called on by the orchestrator
executed == {executeLog[i].obj : i \in 1..Len(executeLog)}

\* An item starts executing once execute() was called on it, or once all of
\* its dependencies completed.
canExecute(o) ==
    /\ status[o] = "Pending"
    /\ \/ o \in executed
       \/ /\ graph.dependencies[o] # {}
          /\ \A d \in graph.dependencies[o] : status[d] = "Complete"

\* An item is rejected while it executes (a branch not taken) or, not yet
\* executed, when one of its dependencies was rejected.
canReject(o) ==
    \/ status[o] = "Executing"
    \/ /\ status[o] = "Pending"
       /\ \E d \in graph.dependencies[o] : status[d] = "Rejected"

----------------------------------------------------------------------------
(* The status-event handlers (objectUpdated and what it dispatches to).    *)
(* Each action is one event: the item sets its status, emits, and the      *)
(* run's handler runs to completion.  The canvas calls of the handlers     *)
(* change no state of the run.                                             *)

\* allObjectsFinished() over the statuses st
allObjectsFinished(st) ==
    \A o \in Objects(graph) : st[o] \in {"Complete", "Rejected"}

\* The condition under which objectCompleted / objectRejected stop the run
shouldComplete(st) == allObjectsFinished(st) /\ ~isStopped

\* The common tail of objectCompleted and objectRejected
completeIfFinished(st) ==
    IF shouldComplete(st)
    THEN /\ isStopped' = TRUE
         /\ onFinish("complete", NoMessage)
    ELSE UNCHANGED <<isStopped, usage, stoppages>>

completeThrown(st) == IF shouldComplete(st) THEN finishThrown ELSE "none"

objectCompleted(o) ==
    /\ pc = "started"
    /\ status[o] = "Executing"
    /\ status' = [status EXCEPT ![o] = "Complete"]
    /\ completeIfFinished(status')
    /\ last' = Op("Complete", o, NoMessage, completeThrown(status'))
    /\ UNCHANGED <<llmProvider, config, limiter, pc, executeLog, stopCalls, errorCalls>>

objectRejected(o) ==
    /\ pc = "started"
    /\ canReject(o)
    /\ status' = [status EXCEPT ![o] = "Rejected"]
    /\ completeIfFinished(status')
    /\ last' = Op("Rejected", o, NoMessage, completeThrown(status'))
    /\ UNCHANGED <<llmProvider, config, limiter, pc, executeLog, stopCalls, errorCalls>>

objectExecuting(o) ==
    /\ pc = "started"
    /\ canExecute(o)
    /\ status' = [status EXCEPT ![o] = "Executing"]
    /\ last' = Op("Executing", o, NoMessage, "none")
    /\ UNCHANGED <<llmProvider, config, limiter, pc, executeLog, stopCalls, errorCalls,
                   isStopped, usage, stoppages>>

objectPending(o) ==
    /\ pc = "started"
    /\ status[o] = "Pending"
    /\ last' = Op("Pending", o, NoMessage, "none")
    /\ UNCHANGED <<llmProvider, config, limiter, pc, executeLog, stopCalls, errorCalls,
                   isStopped, usage, stoppages, status>>

objectError(o, message) ==
    /\ pc = "started"
    /\ status[o] = "Executing"
    /\ status' = [status EXCEPT ![o] = "Error"]
    /\ error(orUnknownError(message))
    /\ last' = Op("Error", o, message, errorThrown)
    /\ UNCHANGED <<llmProvider, config, limiter, pc, executeLog, stopCalls, errorCalls>>

\* Mutant of objectWarning: the warning is handled like an error
objectWarning_stopsRun(o, message) ==
    /\ pc = "started"
    /\ status[o] = "Executing"
    /\ error(orUnknownError(message))
    /\ last' = Op("Warning", o, message, errorThrown)
    /\ UNCHANGED <<llmProvider, config, limiter, pc, executeLog, stopCalls, errorCalls, status>>

objectWarning(o, message) ==
    /\ pc = "started"
    /\ status[o] = "Executing"
    /\ last' = Op("Warning", o, message, "none")
    /\ UNCHANGED <<llmProvider, config, limiter, pc, executeLog, stopCalls, errorCalls,
                   isStopped, usage, stoppages, status>>

----------------------------------------------------------------------------
(* callLLM and the limiter.  this.llmLimit = pLimit(llmLimit ?? 10) keeps  *)
(* a FIFO queue of submitted tasks and starts the oldest one whenever      *)
(* fewer than the limit are in flight; a task is in flight from its start  *)
(* until its promise settles.                                              *)

ModelNames == {"gpt-4", "gpt-3.5-turbo", "other-model"}

\* The requests the items make: the model and the length of the text that
\* the mock path builds from the messages
Requests == { [model |-> "gpt-4", chars |-> 400],
              [model |-> "gpt-3.5-turbo", chars |-> 6],
              [model |-> "other-model", chars |-> 6] }

\* What openai.createChatCompletion can do: throw, or respond with or
\* without usage and with or without a message
Responses ==
    { [throws |-> TRUE, hasUsage |-> FALSE, prompt_tokens |-> 0,
       completion_tokens |-> 0, hasMessage |-> FALSE],
      [throws |-> FALSE, hasUsage |-> TRUE, prompt_tokens |-> 3,
       completion_tokens |-> 5, hasMessage |-> TRUE],
      [throws |-> FALSE, hasUsage |-> TRUE, prompt_tokens |-> 3,
       completion_tokens |-> 5, hasMessage |-> FALSE],
      [throws |-> FALSE, hasUsage |-> FALSE, prompt_tokens |-> 0,
       completion_tokens |-> 0, hasMessage |-> TRUE] }

\* n tokens in the unit of the counters (quarter tokens)
tokens(n) == 4 * n

\* Mutant of concurrency: the limit given to the constructor is ignored
concurrency_ignoresLimit == DefaultLimit

\* llmLimit ?? 10
concurrency == IF llmLimit = <<>> THEN DefaultLimit ELSE llmLimit[1]

\* if (this.isMock || !this.openai)
mockPath == isMock \/ ~openai

\* usage with the entry under key created if absent and its counters raised
record(us, key, model, promptTokens, completionTokens) ==
    LET base == IF usageIndex(us, key) = 0
                THEN Append(us, newUsage(key, model)) ELSE us
        i == usageIndex(base, key)
    IN [base EXCEPT ![i].promptTokens = @ + promptTokens,
                    ![i].completionTokens = @ + completionTokens,
                    ![i].apiCalls = @ + 1]

\* Mutant of mockPromptTokens: the estimate is rounded down to whole tokens
mockPromptTokens_wholeTokens(chars) == tokens(chars \div CharsPerToken)

\* The mock path's estimate: textMessages.length / 4
mockPromptTokens(chars) == tokens(chars) \div CharsPerToken

\* callLLM(request): the task is handed to the limiter, which queues it
callLLM(model, chars) ==
    /\ pc = "started"
    /\ \E o \in Objects(graph) : status[o] = "Executing"
    /\ tasks' = Append(tasks, [model |-> model, chars |-> chars,
                               result |-> "queued", mock |-> FALSE,
                               promptTokens |-> 0, completionTokens |-> 0,
                               recorded |-> FALSE])
    /\ queue' = Append(queue, Len(tasks) + 1)
    /\ last' = Op("callLLM", 0, NoMessage, "none")
    /\ UNCHANGED <<llmProvider, config, status, isStopped, usage, pc, stoppages, executeLog,
                   stopCalls, errorCalls, active, startOrder>>

\* Mutant of nextTask: the newest submission is started first
nextTask_newestFirst == queue[Len(queue)]

\* The queued task the limiter starts next
nextTask == Head(queue)

\* The limiter starts a task: the body of the async function runs up to its
\* first await.  On the mock path that is the whole body: the usage is
\* recorded and the mock message returned.  On the real path the request is
\* sent and the task waits for the response.
limitRun ==
    /\ queue # <<>>
    /\ Cardinality(active) < concurrency
    /\ LET t == nextTask IN
       /\ queue' = SelectSeq(queue, LAMBDA x : x # t)
       /\ active' = active \cup {t}
       /\ startOrder' = Append(startOrder, t)
       /\ IF mockPath
          THEN /\ usage' = record(usage, tasks[t].model, lookupModel(tasks[t].model),
                                  mockPromptTokens(tasks[t].chars), 0)
               /\ tasks' = [tasks EXCEPT ![t].result = "message",
                                         ![t].mock = TRUE,
                                         ![t].promptTokens = mockPromptTokens(tasks[t].chars),
                                         ![t].recorded = TRUE]
          ELSE /\ tasks' = [tasks EXCEPT ![t].result = "awaiting"]
               /\ UNCHANGED usage
    /\ last' = Op("callLLM", 0, NoMessage, "none")
    /\ UNCHANGED <<llmProvider, config, status, isStopped, pc, stoppages, executeLog,
                   stopCalls, errorCalls>>

\* Mutant of realResult: the TypeError of the usage bookkeeping escapes the
\* try block and rejects the promise
realResult_uncaught(t, r) ==
    IF r.throws THEN "Error"
    ELSE IF r.hasUsage /\ lookupModel(tasks[t].model) = Undefined THEN "thrown"
    ELSE IF r.hasMessage THEN "message" ELSE "Error"

\* The real path after the await: the response is read inside try/catch.
\* With response.data.usage, model = this.modelInfo[request.model] and
\* model.name is read: a TypeError for a model the table does not have,
\* caught and returned as the task's value.  The values are "message", "Error"
\* (the backend's failure, or Error("No message returned")) and "TypeError".
realResult(t, r) ==
    IF r.throws THEN "Error"
    ELSE IF r.hasUsage /\ lookupModel(tasks[t].model) = Undefined THEN "TypeError"
    ELSE IF r.hasMessage THEN "message" ELSE "Error"

realRecords(t, r) ==
    ~r.throws /\ r.hasUsage /\ lookupModel(tasks[t].model) # Undefined

\* A task in flight settles and the limiter releases its slot.
limitNext(t) ==
    /\ t \in active
    /\ active' = active \ {t}
    /\ IF tasks[t].mock
       THEN UNCHANGED <<usage, tasks>>
       ELSE \E r \in Responses :
              /\ usage' = IF realRecords(t, r)
                          THEN record(usage, tasks[t].model, tasks[t].model,
                                      tokens(r.prompt_tokens),
                                      tokens(r.completion_tokens))
                          ELSE usage
              /\ tasks' = [tasks EXCEPT
                             ![t].result = realResult(t, r),
                             ![t].promptTokens =
                                 IF realRecords(t, r) THEN tokens(r.prompt_tokens) ELSE 0,
                             ![t].completionTokens =
                                 IF realRecords(t, r) THEN tokens(r.completion_tokens) ELSE 0,
                             ![t].recorded = realRecords(t, r)]
    /\ last' = Op("callLLM", 0, NoMessage, "none")
    /\ UNCHANGED <<llmProvider, config, status, isStopped, pc, stoppages, executeLog,
                   stopCalls, errorCalls, queue, startOrder>>

----------------------------------------------------------------------------
(* LLMProvider (providers.ts): getMergedConfig.  A config object is a      *)
(* function from the config keys to values; a key the object does not     *)
(* have maps to Absent, a key it has with the value undefined to           *)
(* Undefined.  removeUndefinedKeys works in place, so which object an      *)
(* argument is matters: the configOverrides passed, and the object the     *)
(* defaults callback returns, may be the instance's baseConfig object      *)
(* itself (init stores the caller's object, and the field is public).      *)

Absent == "<no key>"

\* No LLMProvider instance
NoProvider == [provider |-> Undefined]

\* Keys of GenericModelConfig: provider, and the first MaxConfigKeys others
ConfigKeyNames == <<"model", "temperature", "top_p">>
ConfigKeys == {"provider"} \cup {ConfigKeyNames[i] : i \in 1..MaxConfigKeys}

\* The providers instances are made for and calls ask for
SupportedProviders == {"openai", "ollama"}

\* {}
EmptyConfig == [k \in ConfigKeys |-> Absent]

\* Mutant of removeUndefinedKeys: no key is deleted
removeUndefinedKeys_keepsAll(obj) == obj

\* removeUndefinedKeys(obj): the object after the keys whose value is
\* undefined were deleted from it
removeUndefinedKeys(obj) ==
    [k \in DOMAIN obj |-> IF obj[k] = Undefined THEN Absent ELSE obj[k]]

\* { ...a, ...b }: every key b has, an undefined value included, wins
spread(a, b) == [k \in ConfigKeys |-> IF b[k] # Absent THEN b[k] ELSE a[k]]

\* this.getDefaultConfigByProvider?.(provider) || {}, before the removal of
\* the undefined keys: nothing without a callback; a new object made for the
\* provider; or the instance's baseConfig object
defaultsObject(p, provider) ==
    IF p.defaultsKind = "none" THEN EmptyConfig
    ELSE IF p.defaultsKind = "baseConfig" THEN p.baseConfig
    ELSE [k \in ConfigKeys |->
             IF p.defaultsTemplate[k] = "default"
             THEN (IF provider = "openai" THEN "openai-default" ELSE "ollama-default")
             ELSE p.defaultsTemplate[k]]

\* getDefaultsByProvider(provider): the object returned
getDefaultsByProvider(p, provider) == removeUndefinedKeys(defaultsObject(p, provider))

\* if (!provider) provider = this.provider
resolveProvider(p, provider) == IF provider = Undefined THEN p.provider ELSE provider

\* getMergedConfig(args).  args.configOverrides is a config object of the
\* caller ({} when none is passed: configOverrides = {}) or, with
\* args.isBaseConfig, the instance's baseConfig object.
\* The result is the instance afterwards: merged is the object returned,
\* baseConfig the baseConfig object after the in-place removals.
mergedInstance(p, args) ==
    LET provider == resolveProvider(p, args.provider)
        defaults == getDefaultsByProvider(p, provider)
        baseAfterDefaults ==
            IF p.defaultsKind = "baseConfig" THEN defaults ELSE p.baseConfig
        given == IF args.isBaseConfig THEN baseAfterDefaults
                 ELSE args.configOverrides
        overrides == removeUndefinedKeys(given)
        baseConfig == IF args.isBaseConfig THEN overrides ELSE baseAfterDefaults
        configOverrides == spread(defaults, overrides)
    IN [p EXCEPT !.baseConfig = baseConfig,
                 !.merged = [spread(baseConfig, configOverrides)
                                EXCEPT !.provider = provider],
                 !.call = args]

getMergedConfig(args) ==
    /\ llmProvider' = mergedInstance(llmProvider, args)
    /\ UNCHANGED <<config, limiter, status, isStopped, usage, pc, stoppages,
                   executeLog, last, stopCalls, errorCalls>>

----------------------------------------------------------------------------
(* Initial states and specifications *)

\* A graph of the items 1..n, in that Object.values order
Graph(n, dependencies, kind, members) ==
    [order |-> [i \in 1..n |-> i], dependencies |-> dependencies,
     kind |-> kind, members |-> members]

NoMembers(n) == [o \in 1..n |-> {}]

\* The graphs the runs are started on
RunGraphs ==
    { \* the empty graph
      Graph(0, <<>>, <<>>, <<>>),
      \* a single node
      Graph(1, <<{}>>, <<"node">>, NoMembers(1)),
      \* two independent nodes
      Graph(2, <<{}, {}>>, <<"node", "node">>, NoMembers(2)),
      \* a node, and an edge that depends on it
      Graph(2, <<{}, {1}>>, <<"node", "edge">>, NoMembers(2)),
      \* two nodes that depend on each other
      Graph(2, <<{2}, {1}>>, <<"node", "node">>, NoMembers(2)),
      \* two edges that depend on each other, and a third edge without dependencies
      Graph(3, <<{2}, {1}, {}>>, <<"edge", "edge", "edge">>, NoMembers(3)),
      \* a group and its member, each listing the other as a dependency
      Graph(2, <<{2}, {1}>>, <<"group", "node">>, <<{2}, {}>>) }

\* The state of the run after its constructor, the graph given
RunConstructed(g) ==
    /\ graph = g
    /\ status = [o \in Objects(g) |-> "Pending"]
    /\ isStopped = FALSE
    /\ usage = <<>>
    /\ pc = "constructed"
    /\ stoppages = <<>>
    /\ executeLog = <<>>
    /\ last = Op("constructor", 0, NoMessage, "none")
    /\ stopCalls = 0
    /\ errorCalls = 0
    /\ queue = <<>>
    /\ active = {}
    /\ tasks = <<>>
    /\ startOrder = <<>>

\* The state after the run's constructor; no LLMProvider is looked at
Constructed(g) ==
    /\ RunConstructed(g)
    /\ llmProvider = NoProvider

\* The options the constructor is given
Options(canvases, mocks, backends, limits) ==
    /\ canvas \in canvases
    /\ isMock \in mocks
    /\ openai \in backends
    /\ llmLimit \in limits

\* The graphs with at most one item that executes: on these the runs are
\* checked together with the item's callLLM requests
SmallGraphs == {g \in RunGraphs : Len(roots(g)) <= 1 /\ Len(vertices(g)) = Len(g.order)}

Init ==
    /\ \E g \in SmallGraphs : Constructed(g)
    /\ Options(BOOLEAN, BOOLEAN, BOOLEAN, {<<>>})

\* The status events of the items
ItemNext ==
    \/ \E o \in Objects(graph) : objectExecuting(o)
    \/ \E o \in Objects(graph) : objectPending(o)
    \/ \E o \in Objects(graph) : objectCompleted(o)
    \/ \E o \in Objects(graph) : objectRejected(o)
    \/ \E o \in Objects(graph), message \in Messages : objectError(o, message)
    \/ \E o \in Objects(graph), message \in Messages : objectWarning(o, message)

\* The run with its items and their callLLM requests; stop() and error()
\* are called from outside at most MaxInterrupts times in all
Next ==
    \/ start
    \/ startResume
    \/ stopCalls + errorCalls < MaxInterrupts /\ stop
    \/ stopCalls + errorCalls < MaxInterrupts /\ errorCall
    \/ ItemNext
    \/ \E r \in Requests : Len(tasks) < MaxCalls /\ callLLM(r.model, r.chars)
    \/ limitRun
    \/ \E t \in active : limitNext(t)

Spec == Init /\ [][Next]_vars

\* Runs on every graph of RunGraphs, whose items make no callLLM request
InitGraphs ==
    /\ \E g \in RunGraphs : Constructed(g)
    /\ Options(BOOLEAN, {TRUE}, {FALSE}, {<<>>})

NextGraphs ==
    \/ start
    \/ startResume
    \/ stopCalls < MaxStops /\ stop
    \/ errorCalls < MaxErrors /\ errorCall
    \/ ItemNext

SpecGraphs == InitGraphs /\ [][NextGraphs]_vars

\* Runs of a single node that keeps submitting requests, under every limit
InitLimiter ==
    /\ Constructed(Graph(1, <<{}>>, <<"node">>, NoMembers(1)))
    /\ Options({FALSE}, BOOLEAN, BOOLEAN, {<<>>} \cup {<<n>> : n \in 1..MaxLimit})

NextLimiter ==
    \/ start
    \/ \E o \in Objects(graph) : objectExecuting(o)
    \/ \E r \in Requests : Len(tasks) < MaxSubmissions /\ callLLM(r.model, r.chars)
    \/ limitRun
    \/ \E t \in active : limitNext(t)

SpecLimiter == InitLimiter /\ [][NextLimiter]_vars

\* The limiter starts a queued task whenever a slot is free, and every task
\* in flight settles
SpecLimiterFair ==
    /\ SpecLimiter
    /\ WF_vars(limitRun)
    /\ \A t \in 1..MaxSubmissions : WF_vars(limitNext(t))

\* Runs of a single node that submits requests for several models and is
\* stopped by the user, by its item's error or by its completion
InitCosts ==
    /\ Constructed(Graph(1, <<{}>>, <<"node">>, NoMembers(1)))
    /\ Options({FALSE}, BOOLEAN, BOOLEAN, {<<>>})

NextCosts ==
    \/ start
    \/ \E o \in Objects(graph) : objectExecuting(o)
    \/ \E r \in Requests : Len(tasks) < MaxCostCalls /\ callLLM(r.model, r.chars)
    \/ limitRun
    \/ \E t \in active : limitNext(t)
    \/ stopCalls < MaxInterrupts /\ stop
    \/ \E o \in Objects(graph) : objectCompleted(o)
    \/ \E o \in Objects(graph) : objectError(o, "boom")

SpecCosts == InitCosts /\ [][NextCosts]_vars

\* start() on every graph of at most MaxNodes items and MaxDepEdges
\* dependencies, with at most one group
dependenciesOf(n, E) == [o \in 1..n |-> {d \in 1..n : <<o, d>> \in E}]

\* The kinds of the items 1..n: nodes and edges, and at most one group
KindsOf(n) ==
    [1..n -> {"node", "edge"}] \cup
    {[k EXCEPT ![c] = "group"] : k \in [1..n -> {"node", "edge"}], c \in 1..n}

\* The members of the group of kind, if it has one: any items but itself
MemberSets(n, kind) ==
    IF \A o \in 1..n : kind[o] # "group" THEN {NoMembers(n)}
    ELSE LET c == CHOOSE o \in 1..n : kind[o] = "group"
         IN {[o \in 1..n |-> IF o = c THEN M ELSE {}] :
                 M \in (SUBSET ((1..n) \ {c})) \ {{}}}

InitValidate ==
    /\ \E n \in 0..MaxNodes :
         \E E \in SUBSET ((1..n) \X (1..n)) :
            /\ Cardinality(E) <= MaxDepEdges
            /\ \E kind \in KindsOf(n) :
                 \E members \in MemberSets(n, kind) :
                    Constructed(Graph(n, dependenciesOf(n, E), kind, members))
    /\ Options(BOOLEAN, {TRUE}, {FALSE}, {<<>>})

NextValidate == start \/ startResume

SpecValidate == InitValidate /\ [][NextValidate]_vars

\* The config objects whose values are v, undefined or missing; a provider
\* field, when there is one, names a provider no instance or call uses
ConfigObjects(v) ==
    {c \in [ConfigKeys -> {Absent, Undefined, v, "groq"}] :
        /\ c["provider"] \in {Absent, "groq"}
        /\ \A k \in ConfigKeys \ {"provider"} : c[k] \in {Absent, Undefined, v}}

\* The arguments of a getMergedConfig call
MergeArguments ==
    {[configOverrides |-> o, isBaseConfig |-> FALSE, provider |-> pr] :
        o \in ConfigObjects("override"),
        pr \in {Undefined} \cup SupportedProviders}
    \cup {[configOverrides |-> EmptyConfig, isBaseConfig |-> TRUE, provider |-> pr] :
             pr \in {Undefined} \cup SupportedProviders}

NoCall == [configOverrides |-> EmptyConfig, isBaseConfig |-> FALSE, provider |-> Undefined]

\* An instance after new LLMProvider({provider, baseConfig,
\* getDefaultConfigByProvider}), on which getMergedConfig is called
InitMerge ==
    /\ RunConstructed(Graph(0, <<>>, <<>>, <<>>))
    /\ Options({FALSE}, {TRUE}, {FALSE}, {<<>>})
    /\ \E pr \in SupportedProviders, base \in ConfigObjects("base"),
          kind \in {"none", "fresh", "baseConfig"} :
          \E template \in IF kind = "fresh" THEN ConfigObjects("default")
                           ELSE {EmptyConfig} :
             llmProvider = [provider |-> pr, baseConfig |-> base,
                            defaultsKind |-> kind, defaultsTemplate |-> template,
                            merged |-> EmptyConfig, call |-> NoCall]

NextMerge == \E args \in MergeArguments : getMergedConfig(args)

SpecMerge == InitMerge /\ [][NextMerge]_vars

----------------------------------------------------------------------------
(* Definitions the properties are stated with *)

\* The items reachable from the set S along getAllDependencies, S included
RECURSIVE Closure(_, _)
Closure(g, S) ==
    LET T == S \cup UNION {getAllDependencies(g, o) : o \in S}
    IN IF T = S THEN S ELSE Closure(g, T)

\* The dependency relation has a directed cycle
HasCycle(g) ==
    \E o \in Objects(g) : o \in Closure(g, getAllDependencies(g, o))

\* A group lists one of its members as a dependency and the member lists it
MutualContainment(g) ==
    \E c \in Objects(g), m \in Objects(g) :
        /\ g.kind[c] = "group"
        /\ m \in g.members[c]
        /\ m \in g.dependencies[c]
        /\ c \in g.dependencies[m]

\* No item is executing or can still emit a status event
Quiescent ==
    /\ pc = "started"
    /\ \A o \in Objects(graph) :
          status[o] # "Executing" /\ ~canExecute(o) /\ ~canReject(o)

\* The tokens callLLM recorded for the model m, summed over the requests
RECURSIVE RecordedPrompt(_, _)
RecordedPrompt(ts, m) ==
    IF ts = <<>> THEN 0
    ELSE (IF Head(ts).recorded /\ Head(ts).model = m THEN Head(ts).promptTokens ELSE 0)
         + RecordedPrompt(Tail(ts), m)

RECURSIVE RecordedCompletion(_, _)
RecordedCompletion(ts, m) ==
    IF ts = <<>> THEN 0
    ELSE (IF Head(ts).recorded /\ Head(ts).model = m THEN Head(ts).completionTokens ELSE 0)
         + RecordedCompletion(Tail(ts), m)

RecordedModels(ts) == {ts[i].model : i \in {j \in 1..Len(ts) : ts[j].recorded}}

\* The cost of everything recorded, at the prices of the table
RECURSIVE RecordedCost(_)
RecordedCost(ts) ==
    IF ts = <<>> THEN 0
    ELSE (IF Head(ts).recorded /\ Head(ts).model \in DOMAIN modelInfo
          THEN modelInfo[Head(ts).model].promptTokenPrice * Head(ts).promptTokens
               + modelInfo[Head(ts).model].completionTokenPrice * Head(ts).completionTokens
          ELSE 0)
         + RecordedCost(Tail(ts))

\* The payload p reports exactly what the requests ts recorded
ReportsRecorded(p, ts) ==
    /\ {p.usage[i].key : i \in 1..Len(p.usage)} = RecordedModels(ts)
    /\ \A i \in 1..Len(p.usage) :
          /\ p.usage[i].promptTokens = RecordedPrompt(ts, p.usage[i].key)
          /\ p.usage[i].completionTokens = RecordedCompletion(ts, p.usage[i].key)
    /\ p.totalCost = RecordedCost(ts)

\* The limit the run was configured with: the llmLimit given, 10 by default
ConfiguredLimit == IF llmLimit = <<>> THEN DefaultLimit ELSE llmLimit[1]

\* The task t has settled: it was started and has left the limiter
Settled(t) == t \in Range(startOrder) /\ t \notin active

\* The values callLLM's promise resolves to
Resolutions == {"message", "Error", "TypeError"}

\* The model name is one the price table does not have
UnknownModel(m) == m \notin DOMAIN modelInfo

\* The sum of the totalCost fields of the entries of us
RECURSIVE SumTotalCosts(_)
SumTotalCosts(us) ==
    IF us = <<>> THEN 0 ELSE Head(us).totalCost + SumTotalCosts(Tail(us))

\* The cost of the counters of the entry u at the table's prices for the
\* model name the entry is stored under
CostAtTablePrices(u) ==
    u.promptTokens * modelInfo[u.key].promptTokenPrice
    + u.completionTokens * modelInfo[u.key].completionTokenPrice

\* The characters of the texts of the requests for the model m that ran on
\* the mock path
RECURSIVE MockChars(_, _)
MockChars(ts, m) ==
    IF ts = <<>> THEN 0
    ELSE (IF Head(ts).mock /\ Head(ts).model = m THEN Head(ts).chars ELSE 0)
         + MockChars(Tail(ts), m)

\* A stoppage's message field holds a message
Present(message) == message \notin {NoMessage, Undefined}

\* The items that list no dependency at all
ZeroDependencyItems(g) == {o \in Objects(g) : g.dependencies[o] = {}}

\* The reason of the stoppage emitted last
lastReason(ss) == ss[Len(ss)].reason

\* The first vertex of the graph in Object.values order (the graph has one)
FirstVertex(g) ==
    g.order[CHOOSE i \in 1..Len(g.order) :
               /\ IsVertex(g, g.order[i])
               /\ \A j \in 1..(i - 1) : ~IsVertex(g, g.order[j])]

\* No item occurs twice in the sequence s
NoDuplicates(s) == \A i \in 1..Len(s) : \A j \in 1..Len(s) : s[i] = s[j] => i = j

\* The counter field of the usage entry of the model m, 0 without an entry
CounterOf(us, m, field) ==
    IF usageIndex(us, m) = 0 THEN 0 ELSE us[usageIndex(us, m)][field]

\* What reading a key gives: undefined for a key the object does not have
Read(v) == IF v = Absent THEN Undefined ELSE v

\* The key holds a value other than undefined
Defined(v) == v \notin {Absent, Undefined}

\* The configOverrides object of the call a on the instance p, as passed
GivenOverrides(p, a) ==
    IF a.isBaseConfig THEN p.baseConfig ELSE a.configOverrides

\* The provider the call a on the instance p is for
CallProvider(p, a) == IF a.provider \in SupportedProviders THEN a.provider ELSE p.provider

----------------------------------------------------------------------------
(* The properties *)

\* C1: whatever the order of stop() calls, error() calls and status events,
\* onFinish is never invoked a second time in a run.
C1_OnFinishAtMostOnce == Len(stoppages) <= 1

\* C2: stop() is idempotent: a stop() call after an earlier stop() call emits
\* no stoppage and changes nothing of the run.
C2_StopIdempotent ==
    [][(stopCalls >= 1 /\ stopCalls' = stopCalls + 1)
          => (stoppages' = stoppages /\ isStopped' = isStopped /\ usage' = usage)]_vars

\* C3: once isStopped is true, no operation of the run sets it back to false.
C3_IsStoppedNeverCleared == [][isStopped => isStopped']_vars

\* C4: on an acyclic graph (the empty one included), once start() has run
\* and every item that executed has emitted its terminal event, with no
\* stop() or error() call from outside, exactly one stoppage was emitted.
C4_StartYieldsOneStoppage ==
    (~HasCycle(graph) /\ stopCalls = 0 /\ errorCalls = 0 /\ Quiescent)
        => Len(stoppages) = 1

\* C5: when an item emits Error, the run is stopped, the stoppage emitted
\* for it has reason error and carries the item's message (or "Unknown
\* error"), and no execute() call was made after an item was in Error.
C5_ItemErrorStopsRun ==
    /\ last.op = "Error" =>
          /\ isStopped
          /\ stoppages # <<>>
          /\ stoppages[Len(stoppages)].reason = "error"
          /\ stoppages[Len(stoppages)].message = orUnknownError(last.message)
    /\ \A i \in 1..Len(executeLog) : ~executeLog[i].errored

\* C6: when the last item completes and every item completed, with no
\* stop() or error() call, the single stoppage has reason complete and its
\* usage and totalCost are the per-model sums of what callLLM recorded.
C6_CompleteReportsUsage ==
    (/\ last.op = "Complete"
     /\ \A o \in Objects(graph) : status[o] = "Complete"
     /\ stopCalls = 0 /\ errorCalls = 0)
        => /\ Len(stoppages) = 1
           /\ stoppages[1].reason = "complete"
           /\ ReportsRecorded(stoppages[1], tasks)

\* C7: on a graph whose dependency relation has a cycle, start() fails
\* validation and execute() is called on no item, whatever the kinds of
\* the items.
C7_CycleFailsValidation ==
    HasCycle(graph) => (pc \in {"constructed", "failed"} /\ executeLog = <<>>)

\* C8: a graph in which a group and one of its members list each other as
\* dependencies, and which has no other cycle, passes validation: isDAG is
\* true and start() signals no error.
C8_ContainerMemberPasses ==
    (MutualContainment(graph) /\ ~HasCycle(graph))
        => /\ isDAG(graph)
           /\ validate(graph) = <<>>
           /\ pc # "failed"
           /\ stoppages = <<>>
           /\ \A o \in Objects(graph) : status[o] # "Error"

C8_Witness ==
    MutualContainment(graph) /\ ~HasCycle(graph) /\ pc = "started"

\* C9: the number of callLLM tasks in flight never exceeds the configured
\* limit (10 by default), and a submission beyond it has not started: it
\* waits in the queue until a task in flight settles.
C9_InFlightAtMostLimit ==
    /\ Cardinality(active) <= ConfiguredLimit
    /\ active \subseteq Range(startOrder)
    /\ Range(queue) \cap Range(startOrder) = {}

C9_Witness ==
    /\ llmLimit # <<>>
    /\ Cardinality(active) = ConfiguredLimit
    /\ queue # <<>>

\* C10: queued submissions are started in submission order, and every
\* queued submission is eventually started.
C10_FifoAdmission ==
    /\ [](\A i \in 1..Len(startOrder) : \A j \in 1..Len(startOrder) :
             i < j => startOrder[i] < startOrder[j])
    /\ \A t \in 1..MaxSubmissions :
          (t \in Range(queue)) ~> (t \in Range(startOrder))

C10_Witness ==
    /\ Len(queue) >= 2
    /\ startOrder # <<>>

C12_UnknownModelTolerated ==
    /\ \A t \in 1..Len(tasks) :
          (Settled(t) /\ UnknownModel(tasks[t].model)) =>
              /\ tasks[t].result # "TypeError"
              /\ tasks[t].mock => (tasks[t].result = "message" /\ tasks[t].recorded)
    /\ \A i \in 1..Len(usage) : ~costThrows(usage[i])
    /\ last.thrown # "TypeError"

\* C13: the usage of a stoppage is a snapshot: whatever callLLM records
\* after the stoppage was emitted, the usage of the payload handed to
\* onFinish stays what it was when onFinish was called.
C13_StoppageUsageIsSnapshot ==
    \A i \in 1..Len(stoppages) : payloadUsage(i) = stoppages[i].usage

C15_MockTokenEstimate ==
    mockPath =>
        \A i \in 1..Len(usage) :
            /\ CharsPerToken * usage[i].promptTokens
                   = tokens(MockChars(tasks, usage[i].key))
            /\ usage[i].completionTokens = 0
            /\ MockChars(tasks, usage[i].key) = 400
                   => usage[i].promptTokens = tokens(100)

C15_Witness ==
    /\ mockPath
    /\ \E i \in 1..Len(usage) :
          /\ usage[i].apiCalls = 1
          /\ MockChars(tasks, usage[i].key) = 400
          /\ usage[i].promptTokens = tokens(100)
    /\ \E i \in 1..Len(usage) :
          /\ MockChars(tasks, usage[i].key) = 6
          /\ 2 * usage[i].promptTokens = tokens(3)

\* C16: in every stoppage emitted, the message is present if and only if
\* the reason is error.
C16_MessageIffError ==
    \A i \in 1..Len(stoppages) :
        Present(stoppages[i].message) <=> stoppages[i].reason = "error"

C16_Witness ==
    \E i \in 1..Len(stoppages), j \in 1..Len(stoppages) :
        /\ stoppages[i].reason = "user"
        /\ stoppages[j].reason = "error"
        /\ stoppages[j].message = "Unknown error"
        /\ last.op = "Error"
        /\ last.message = Undefined

\* C17: once stop() was called on a run that has begun to start, the run
\* calls execute() on no item, also when start() was waiting for the canvas
\* at the time, and a later Complete or Rejected event emits no stoppage.
C17_NoExecuteAfterStop ==
    [][(stopCalls >= 1 /\ isStopped /\ pc # "constructed")
          => /\ executeLog' = executeLog
             /\ last'.op \in {"Complete", "Rejected"} => stoppages' = stoppages]_vars

\* C18: execute() is called by start() only: when it is called every item
\* has been reset and the validation, cycle check included, has signalled
\* nothing; once start() is through, execute() was called exactly once on
\* each item without dependencies and on no other item, and no later
\* operation calls it again.
C18_ExecuteSeededByStartOnly ==
    /\ [](IF pc = "started"
          THEN /\ executed = ZeroDependencyItems(graph)
               /\ Len(executeLog) = Cardinality(ZeroDependencyItems(graph))
          ELSE executeLog = <<>>)
    /\ [][executeLog' # executeLog
            => /\ last'.op \in {"start", "startResume"}
               /\ \A o \in Objects(graph) : status'[o] = "Pending"
               /\ validate(graph) = <<>>]_vars

C18_Witness ==
    /\ pc = "started"
    /\ executeLog # <<>>
    /\ \E o \in Objects(graph) :
          /\ graph.dependencies[o] # {}
          /\ status[o] = "Complete"
    /\ last.op = "Complete"

\* C19: a complete stoppage is emitted only by a Complete or Rejected event
\* after which every item is Complete or Rejected; the first such event
\* handled while the run is not stopped emits one; and a Rejected event
\* emits no stoppage of another reason.
C19_CompleteWhenAllFinished ==
    [][/\ (Len(stoppages') > Len(stoppages) /\ lastReason(stoppages') = "complete")
            => /\ allObjectsFinished(status')
               /\ last'.op \in {"Complete", "Rejected"}
               /\ ~isStopped
       /\ (last'.op \in {"Complete", "Rejected"} /\ allObjectsFinished(status')
              /\ ~isStopped)
            => /\ Len(stoppages') = Len(stoppages) + 1
               /\ lastReason(stoppages') = "complete"
       /\ last'.op = "Rejected"
            => \/ stoppages' = stoppages
               \/ lastReason(stoppages') = "complete"]_vars

\* C20: error(message), called directly, by an item's Error event or by the
\* validation, leaves the run stopped with an error stoppage carrying the
\* message emitted and raises Error(message); stop() and the Complete and
\* Rejected handlers raise nothing.
C20_OnlyErrorRaises ==
    /\ (last.op \in {"error", "Error"} \/ (last.op = "start" /\ pc = "failed"))
          => /\ isStopped
             /\ stoppages # <<>>
             /\ lastReason(stoppages) = "error"
             /\ stoppages[Len(stoppages)].message = orUnknownError(last.message)
             /\ last.thrown = "Error"
    /\ last.op \in {"stop", "Complete", "Rejected"} => last.thrown = "none"

\* C21: when the validation of start() finds the graph not to be a DAG, an
\* error is signalled on exactly one item, the first vertex of the graph in
\* iteration order, and the run ends in the error path: it is stopped, the
\* one stoppage has reason error and the cycle message, start() has raised
\* and called execute() on nothing.
C21_CycleSignalsFirstVertex ==
    (~isDAG(graph) /\ pc # "constructed") =>
        /\ \E o \in Objects(graph) : IsVertex(graph, o)
        /\ {o \in Objects(graph) : status[o] = "Error"} = {FirstVertex(graph)}
        /\ pc = "failed"
        /\ isStopped
        /\ Len(stoppages) = 1
        /\ stoppages[1].reason = "error"
        /\ stoppages[1].message = CycleMessage
        /\ last.thrown = "Error"
        /\ executeLog = <<>>

\* C22: isDAG is true exactly when the relation of getAllDependencies has no
\* directed cycle, self-dependencies and cycles away from the first item
\* included, and its traversal enters no item twice.
C22_IsDAGIffAcyclic ==
    /\ isDAG(graph) <=> ~HasCycle(graph)
    /\ NoDuplicates(isDAGTraversal(graph).entered)

C22_Witness ==
    /\ pc = "failed"
    /\ Len(graph.order) = MaxNodes
    /\ getAllDependencies(graph, 1) = {}
    /\ \A o \in Objects(graph) : 1 \notin getAllDependencies(graph, o)
    /\ \E o \in Objects(graph) : o \in getAllDependencies(graph, o)
    /\ ~isDAG(graph)

\* C23: handling a Warning, Executing or Pending event changes neither
\* isStopped nor usage, emits no stoppage and raises nothing, for every kind
\* of item, with or without a canvas.
C23_StatusEventsKeepTermination ==
    [][last'.op \in {"Warning", "Executing", "Pending"}
          => /\ isStopped' = isStopped
             /\ usage' = usage
             /\ stoppages' = stoppages
             /\ last'.thrown = "none"]_vars

C23_Witness ==
    /\ last.op = "Warning"
    /\ canvas
    /\ graph.kind[last.obj] = "edge"
    /\ ~isStopped
    /\ stoppages = <<>>

\* C24: no callLLM step lowers a model's promptTokens, completionTokens or
\* apiCalls, and the step in which a callLLM obtains a message as its value
\* raises the apiCalls of its model by exactly 1, on both paths.
C24_CountersMonotone ==
    [][/\ \A m \in ModelNames :
            \A field \in {"promptTokens", "completionTokens", "apiCalls"} :
                CounterOf(usage', m, field) >= CounterOf(usage, m, field)
       /\ \A t \in 1..Len(tasks) :
            (tasks[t].result # "message" /\ tasks'[t].result = "message")
               => CounterOf(usage', tasks[t].model, "apiCalls")
                     = CounterOf(usage, tasks[t].model, "apiCalls") + 1]_vars

====
